---- MODULE Spec2Model ----
(***************************************************************************)
(* A model of the financial_analyzer pipeline: fetch -> process -> detect  *)
(* -> persist (src/src/main.py run), with its pure parts (process_data,    *)
(* the crossover detectors) and its persistence layer (database.py) also   *)
(* exercised on their own over bounded inputs.                             *)
(*                                                                         *)
(* Numbers.  A float cell of a DataFrame is a tuple: <<>> is NaN / NULL,   *)
(* <<n, d>> (d > 0) is the rational n/d.  Rationals are exact, so float    *)
(* rounding is not modelled.  A date is a day ordinal, day 1 being         *)
(* 2020-01-01; its string form is its ISO text.                            *)
(***************************************************************************)
EXTENDS Integers, Sequences, FiniteSets, TLC

VARIABLES
    pc,             \* which operation has run / where the run stands
    provider,       \* what the data provider (yfinance) returns for the ticker
    raw,            \* fetch_stock_data's result: the input of process_data
    df,             \* the metrics table: process_data's result
    golden,         \* detect_golden_crossover's result
    death,          \* detect_death_cross's result
    signal_events,  \* table signal_events: set of rows [id, ticker, date, type]
    daily_metrics,  \* table daily_metrics: set of rows [ticker, date, close, SMA50, SMA200]
    dbCall,         \* the arguments of the most recent save_* call
    lastSaved,      \* per (ticker, date) ever saved: the metrics row most recently saved
    calls,          \* the components the run has invoked, in order
    escaped,        \* an exception has escaped the run
    summary         \* the summary record written to the output file

vars == <<pc, provider, raw, df, golden, death, signal_events, daily_metrics,
          dbCall, lastSaved, calls, escaped, summary>>

----------------------------------------------------------------------------
(* Cells and dates *)

NaN == <<>>

Num(n) == <<n, 1>>

IsNaN(c) == c = NaN

\* float comparisons; any comparison with NaN is False
RatLt(a, b) == ~IsNaN(a) /\ ~IsNaN(b) /\ a[1] * b[2] < b[1] * a[2]
RatLe(a, b) == ~IsNaN(a) /\ ~IsNaN(b) /\ a[1] * b[2] <= b[1] * a[2]
RatGt(a, b) == RatLt(b, a)
RatGe(a, b) == RatLe(b, a)
RatEq(a, b) == ~IsNaN(a) /\ ~IsNaN(b) /\ a[1] * b[2] = b[1] * a[2]

\* two cells hold the same value (NaN matching NaN, as DataFrame.equals does)
SameCell(a, b) == IF IsNaN(a) \/ IsNaN(b) THEN IsNaN(a) /\ IsNaN(b) ELSE RatEq(a, b)

\* float arithmetic; NaN propagates, 0/0 is NaN, x/0 is infinite (<<x, 0>>)
RatAdd(a, b) ==
    IF IsNaN(a) \/ IsNaN(b) THEN NaN ELSE <<a[1] * b[2] + b[1] * a[2], a[2] * b[2]>>

RatSub(a, b) ==
    IF IsNaN(a) \/ IsNaN(b) THEN NaN ELSE <<a[1] * b[2] - b[1] * a[2], a[2] * b[2]>>

RatMul(a, b) ==
    IF IsNaN(a) \/ IsNaN(b) THEN NaN ELSE <<a[1] * b[1], a[2] * b[2]>>

RatDiv(a, b) ==
    IF IsNaN(a) \/ IsNaN(b) THEN NaN
    ELSE IF b[1] = 0 THEN (IF a[1] = 0 THEN NaN ELSE <<a[1], 0>>)
    ELSE IF b[1] < 0 THEN <<(0 - a[1]) * b[2], a[2] * (0 - b[1])>>
    ELSE <<a[1] * b[2], a[2] * b[1]>>

\* Python's None, and the truth value of a number or None (NaN is truthy)
PyNone == <<"None">>

Truthy(c) == c # PyNone /\ (IsNaN(c) \/ c[1] # 0)

Pad2(n) == IF n < 10 THEN "0" \o ToString(n) ELSE ToString(n)

\* days of the months of 2020, a leap year
MonthDays == <<31, 29, 31, 30, 31, 30, 31, 31, 30, 31, 30, 31>>

RECURSIVE YearMonthDay(_, _, _)
YearMonthDay(y, m, d) ==
    LET len == IF m = 2 /\ y # 2020 THEN 28 ELSE MonthDays[m]
    IN  IF d <= len THEN <<y, m, d>>
        ELSE IF m = 12 THEN YearMonthDay(y + 1, 1, d - len)
        ELSE YearMonthDay(y, m + 1, d - len)

\* str(date): the ISO form of day ordinal d (day 1 = 2020-01-01)
DateStr(d) ==
    LET ymd == YearMonthDay(2020, 1, d)
    IN  ToString(ymd[1]) \o "-" \o Pad2(ymd[2]) \o "-" \o Pad2(ymd[3])

----------------------------------------------------------------------------
(* database.py *)

\* signal_events has the surrogate primary key id alone (init_db)
SignalKey(r) == r.id

\* a primary key that leaves the ticker out
MetricsKeyDateOnly(r) == r.date

\* daily_metrics has the composite primary key (ticker, date) (init_db)
MetricsKey(r) == <<r.ticker, r.date>>

\* INSERT OR REPLACE: the rows that collide with the new row on the table's
\* primary key are deleted, then the new row is inserted
InsertOrReplaceSignal(tbl, row) ==
    {r \in tbl : SignalKey(r) # SignalKey(row)} \cup {row}

InsertOrReplaceMetrics(tbl, row) ==
    {r \in tbl : MetricsKey(r) # MetricsKey(row)} \cup {row}

\* the rowid SQLite gives a row inserted without an id: one more than the largest
NextRowId(tbl) ==
    IF tbl = {} THEN 1
    ELSE (CHOOSE m \in {r.id : r \in tbl} : \A r \in tbl : r.id <= m) + 1

RECURSIVE save_signals(_, _, _, _)
save_signals(tbl, ticker, signals, type_) ==
    IF signals = <<>> THEN tbl
    ELSE save_signals(
            InsertOrReplaceSignal(tbl,
                [id |-> NextRowId(tbl), ticker |-> ticker,
                 date |-> Head(signals), type |-> type_]),
            ticker, Tail(signals), type_)

\* float(x) of a cell: the number, NaN being stored as NULL
SqlFloat(c) == c

\* a datetime.date bound to a statement is stored as its ISO text
SqlDate(d) == DateStr(d)

RECURSIVE save_daily_metrics(_, _, _)
save_daily_metrics(tbl, ticker, rows) ==
    IF rows = <<>> THEN tbl
    ELSE save_daily_metrics(
            InsertOrReplaceMetrics(tbl,
                [ticker |-> ticker, date |-> SqlDate(Head(rows).date),
                 close |-> SqlFloat(Head(rows).close),
                 SMA50 |-> SqlFloat(Head(rows).SMA50),
                 SMA200 |-> SqlFloat(Head(rows).SMA200)]),
            ticker, Tail(rows))

----------------------------------------------------------------------------
(* Values of the variables an exercise does not use *)

NoProvider == [kind |-> "None"]
NoRaw == [kind |-> "unset"]
NoFrame == [columns |-> {}, rows |-> <<>>]
NoCall == [op |-> "none", ticker |-> "", arg |-> <<>>, type_ |-> ""]
NoSaved == [k \in {} |-> <<>>]
NoSummary == [kind |-> "unset"]

----------------------------------------------------------------------------
(* The persistence layer on its own: any sequence of save_* calls on the   *)
(* schema init_db creates                                                   *)

Tickers == {"AAPL", "RELIANCE.NS"}

SignalTypes == {"GoldenCross", "DeathCross"}

\* the dates the calls are about
DbDates == {1, 2}

\* the values a saved column takes
DbValues == {1, 2}

\* rows a save_daily_metrics call carries at most
MaxDfRows == 2

\* rows signal_events is let grow to
MaxEvents == 4

\* the event-date lists a detector hands over: ascending ISO dates
SignalLists ==
    {<<>>} \cup {<<DateStr(d)>> : d \in DbDates}
           \cup {<<DateStr(p[1]), DateStr(p[2])>> :
                    p \in {q \in DbDates \X DbDates : q[1] < q[2]}}

DbRow(d, v) ==
    [c \in {"date", "close", "SMA50", "SMA200"} |->
        IF c = "date" THEN d
        ELSE IF c = "close" THEN Num(v)
        ELSE IF c = "SMA50" THEN <<v + 1, 2>>
        ELSE <<v + 2, 3>>]

DbRowSet == {DbRow(d, v) : d \in DbDates, v \in DbValues}

DbFrames == UNION {[1..n -> DbRowSet] : n \in 0..MaxDfRows}

\* the last row of rows dated d
LastRowDated(rows, d) ==
    rows[CHOOSE i \in 1..Len(rows) :
            /\ rows[i].date = d
            /\ \A j \in 1..Len(rows) : rows[j].date = d => j <= i]

InitDbState ==
    /\ provider = NoProvider
    /\ raw = NoRaw
    /\ df = NoFrame
    /\ golden = <<>>
    /\ death = <<>>
    /\ signal_events = {}
    /\ daily_metrics = {}
    /\ dbCall = NoCall
    /\ lastSaved = NoSaved
    /\ calls = <<>>
    /\ escaped = FALSE
    /\ summary = NoSummary

InitSignalsDb == pc = "signals_db" /\ InitDbState

InitMetricsDb == pc = "metrics_db" /\ InitDbState

SaveSignalsCall ==
    /\ pc = "signals_db"
    /\ \E t \in Tickers, signals \in SignalLists, type_ \in SignalTypes :
        /\ Cardinality(signal_events) + Len(signals) <= MaxEvents
        /\ signal_events' = save_signals(signal_events, t, signals, type_)
        /\ dbCall' = [op |-> "save_signals", ticker |-> t, arg |-> signals, type_ |-> type_]
    /\ UNCHANGED <<pc, provider, raw, df, golden, death, daily_metrics, lastSaved,
                   calls, escaped, summary>>

SaveDailyMetricsCall ==
    /\ pc = "metrics_db"
    /\ \E t \in Tickers, rows \in DbFrames :
        /\ daily_metrics' = save_daily_metrics(daily_metrics, t, rows)
        /\ dbCall' = [op |-> "save_daily_metrics", ticker |-> t, arg |-> rows, type_ |-> ""]
        /\ lastSaved' =
            LET dated == {rows[i].date : i \in 1..Len(rows)}
            IN  [k \in DOMAIN lastSaved \cup {<<t, d>> : d \in dated} |->
                    IF k[1] = t /\ k[2] \in dated
                    THEN LastRowDated(rows, k[2])
                    ELSE lastSaved[k]]
    /\ UNCHANGED <<pc, provider, raw, df, golden, death, signal_events,
                   calls, escaped, summary>>

SpecSignalsDb == InitSignalsDb /\ [][SaveSignalsCall]_vars

SpecMetricsDb == InitMetricsDb /\ [][SaveDailyMetricsCall]_vars

----------------------------------------------------------------------------
(* C1: signal persistence is safe to replay: after any sequence of         *)
(* save_signals calls (the same ticker, dates and kind saved again         *)
(* included) signal_events holds at most one row per (ticker, date, kind). *)

C1_AtMostOneRowPerSignal ==
    \A r1 \in signal_events, r2 \in signal_events :
        (r1.ticker = r2.ticker /\ r1.date = r2.date /\ r1.type = r2.type) => r1 = r2

----------------------------------------------------------------------------
(* C2: daily-metrics persistence is an idempotent upsert keyed by (ticker, *)
(* date): after any sequence of save_daily_metrics calls the table holds   *)
(* exactly one row per (ticker, date) ever saved, carrying the close,      *)
(* SMA50 and SMA200 of the most recent call for that key, and repeating    *)
(* the most recent call changes nothing.                                    *)

C2_IdempotentMetricsUpsert ==
    /\ Cardinality(daily_metrics) = Cardinality(DOMAIN lastSaved)
    /\ \A k \in DOMAIN lastSaved :
        \E r \in daily_metrics :
            /\ r.ticker = k[1]
            /\ r.date = DateStr(k[2])
            /\ SameCell(r.close, lastSaved[k].close)
            /\ SameCell(r.SMA50, lastSaved[k].SMA50)
            /\ SameCell(r.SMA200, lastSaved[k].SMA200)
    /\ dbCall.op = "save_daily_metrics" =>
        save_daily_metrics(daily_metrics, dbCall.ticker, dbCall.arg) = daily_metrics

\* a key has been saved twice with different values, and the table is as claimed
C2_Witness ==
    /\ dbCall.op = "save_daily_metrics"
    /\ Len(dbCall.arg) = 2
    /\ dbCall.arg[1].date = dbCall.arg[2].date
    /\ dbCall.arg[1].close # dbCall.arg[2].close
    /\ Cardinality(daily_metrics) >= 2

----------------------------------------------------------------------------
(* DataFrames.  A DataFrame is [columns, rows]: rows is the sequence of    *)
(* its rows in storage order, each a function from the column names.       *)

\* DataFrame.sort_values("date") on the rows: ascending, rows of equal date
\* keeping their order.  Row i goes to place 1 + the number of rows before it.
SortRank(rows, i) ==
    Cardinality({j \in 1..Len(rows) :
        rows[j].date < rows[i].date \/ (rows[j].date = rows[i].date /\ j < i)}) + 1

SortValues(rows) ==
    LET rank == SubSeq([i \in 1..Len(rows) |-> SortRank(rows, i)], 1, Len(rows))
    IN  SubSeq([k \in 1..Len(rows) |-> rows[CHOOSE i \in 1..Len(rows) : rank[i] = k]],
               1, Len(rows))

\* the rows left as they are
Unsorted(rows) == rows

\* the detectors' df.sort_values("date").reset_index(drop=True)
SortByDate(rows) == SortValues(rows)

----------------------------------------------------------------------------
(* signals.py *)

\* Series.shift(1): the value of the row before, NaN on the first row
Shift1(rows, col, i) == IF i = 1 THEN NaN ELSE rows[i - 1][col]

\* the earlier row must be strictly below
GoldenCondStrict(rows, i) ==
    /\ RatGt(rows[i]["SMA50"], rows[i]["SMA200"])
    /\ RatLt(Shift1(rows, "SMA50", i), Shift1(rows, "SMA200", i))

\* (sma50 > sma200) & (sma50.shift(1) <= sma200.shift(1)) at row i
GoldenCond(rows, i) ==
    /\ RatGt(rows[i]["SMA50"], rows[i]["SMA200"])
    /\ RatLe(Shift1(rows, "SMA50", i), Shift1(rows, "SMA200", i))

\* (sma50 < sma200) & (sma50.shift(1) >= sma200.shift(1)) at row i
DeathCond(rows, i) ==
    /\ RatLt(rows[i]["SMA50"], rows[i]["SMA200"])
    /\ RatGe(Shift1(rows, "SMA50", i), Shift1(rows, "SMA200", i))

\* df.loc[cond, "date"].astype(str).tolist()
RECURSIVE DatesWhere(_, _, _)
DatesWhere(rows, cond, i) ==
    IF i > Len(rows) THEN <<>>
    ELSE IF cond[i] THEN <<DateStr(rows[i].date)>> \o DatesWhere(rows, cond, i + 1)
    ELSE DatesWhere(rows, cond, i + 1)

detect_golden_crossover(frame) ==
    LET rows == SortByDate(frame.rows)
    IN  IF "SMA50" \notin frame.columns \/ "SMA200" \notin frame.columns THEN <<>>
        ELSE DatesWhere(rows, [i \in 1..Len(rows) |-> GoldenCond(rows, i)], 1)

detect_death_cross(frame) ==
    LET rows == SortByDate(frame.rows)
    IN  IF "SMA50" \notin frame.columns \/ "SMA200" \notin frame.columns THEN <<>>
        ELSE DatesWhere(rows, [i \in 1..Len(rows) |-> DeathCond(rows, i)], 1)

----------------------------------------------------------------------------
(* The detectors on their own, over metrics tables of distinct dates given *)
(* in any row order                                                         *)

\* rows of a generated metrics table at most
MaxSigRows == 3

SigColumns == {"date", "SMA50", "SMA200"}

SigCells50 == {Num(1), Num(2)}

SigCells200 == {Num(1), Num(2), <<3, 2>>}

SigRow(d, a, b) ==
    [c \in SigColumns |-> IF c = "date" THEN d ELSE IF c = "SMA50" THEN a ELSE b]

SigRowSet == {SigRow(d, a, b) : d \in 1..MaxSigRows, a \in SigCells50, b \in SigCells200}

DistinctDates(rows) ==
    \A i \in 1..Len(rows), j \in 1..Len(rows) : rows[i].date = rows[j].date => i = j

SigRowSeqs ==
    {rows \in UNION {[1..n -> SigRowSet] : n \in 0..MaxSigRows} : DistinctDates(rows)}

\* the table of tests/test_signals.py: ten consecutive days from 2020-01-01
TestSMA50 == <<Num(1), Num(1), Num(1), Num(1), Num(2), Num(2), Num(2), Num(2), Num(3), Num(3)>>

TestSMA200 ==
    <<Num(1), Num(1), Num(1), Num(1), Num(1), <<15, 10>>, <<17, 10>>, <<25, 10>>,
      <<29, 10>>, Num(2)>>

TestFrame ==
    [columns |-> SigColumns,
     rows |-> [i \in 1..10 |-> SigRow(i, TestSMA50[i], TestSMA200[i])]]

SigFrames == {[columns |-> SigColumns, rows |-> rows] : rows \in SigRowSeqs} \cup {TestFrame}

InitSignals ==
    /\ pc = "detect"
    /\ df \in SigFrames
    /\ provider = NoProvider
    /\ raw = NoRaw
    /\ golden = <<>>
    /\ death = <<>>
    /\ signal_events = {}
    /\ daily_metrics = {}
    /\ dbCall = NoCall
    /\ lastSaved = NoSaved
    /\ calls = <<>>
    /\ escaped = FALSE
    /\ summary = NoSummary

DetectGoldenCall ==
    /\ pc = "detect"
    /\ golden' = detect_golden_crossover(df)
    /\ pc' = "detected_golden"
    /\ UNCHANGED <<provider, raw, df, death, signal_events, daily_metrics, dbCall,
                   lastSaved, calls, escaped, summary>>

DetectDeathCall ==
    /\ pc = "detected_golden"
    /\ death' = detect_death_cross(df)
    /\ pc' = "detected"
    /\ UNCHANGED <<provider, raw, df, golden, signal_events, daily_metrics, dbCall,
                   lastSaved, calls, escaped, summary>>

SpecSignals == InitSignals /\ [][DetectGoldenCall \/ DetectDeathCall]_vars

----------------------------------------------------------------------------
(* C3: on a metrics table with date, SMA50 and SMA200 columns, the golden  *)
(* detector returns exactly the dates, ascending, of the rows that have an *)
(* earlier row and are above (SMA50 > SMA200) while the row dated just     *)
(* before is not above (SMA50 <= SMA200); the death detector likewise with *)
(* below (<) and not below (>=); the earliest row is never returned, and   *)
(* the result is a function of the set of rows, not of their order.        *)

FrameDates(frame) == {frame.rows[i].date : i \in 1..Len(frame.rows)}

RowDated(frame, d) == frame.rows[CHOOSE i \in 1..Len(frame.rows) : frame.rows[i].date = d]

HasEarlier(frame, d) == \E e \in FrameDates(frame) : e < d

DateBefore(frame, d) ==
    CHOOSE e \in FrameDates(frame) :
        e < d /\ \A x \in FrameDates(frame) : x < d => x <= e

GoldenDates(frame) ==
    {d \in FrameDates(frame) :
        /\ HasEarlier(frame, d)
        /\ RatGt(RowDated(frame, d)["SMA50"], RowDated(frame, d)["SMA200"])
        /\ RatLe(RowDated(frame, DateBefore(frame, d))["SMA50"],
                 RowDated(frame, DateBefore(frame, d))["SMA200"])}

DeathDates(frame) ==
    {d \in FrameDates(frame) :
        /\ HasEarlier(frame, d)
        /\ RatLt(RowDated(frame, d)["SMA50"], RowDated(frame, d)["SMA200"])
        /\ RatGe(RowDated(frame, DateBefore(frame, d))["SMA50"],
                 RowDated(frame, DateBefore(frame, d))["SMA200"])}

\* list is the ISO dates of the day set days, ascending, each once
IsAscendingDatesOf(list, days) ==
    /\ Len(list) = Cardinality(days)
    /\ \A d \in days : \E i \in 1..Len(list) : list[i] = DateStr(d)
    /\ \A i \in 1..Len(list), j \in 1..Len(list) :
        i < j => \E d \in days, e \in days : d < e /\ list[i] = DateStr(d) /\ list[j] = DateStr(e)

C3_DetectorsReturnExactlyTheCrossings ==
    /\ pc \in {"detected_golden", "detected"} => IsAscendingDatesOf(golden, GoldenDates(df))
    /\ pc = "detected" => IsAscendingDatesOf(death, DeathDates(df))

\* an unsorted table with a golden crossing on its last day and a death crossing before
C3_Witness ==
    /\ pc = "detected"
    /\ Len(df.rows) = 3
    /\ df.rows[1].date > df.rows[2].date
    /\ golden # <<>>
    /\ death # <<>>

----------------------------------------------------------------------------
(* C4: on the table of test_golden_and_death_cross (SMA50 =                *)
(* [1,1,1,1,2,2,2,2,3,3], SMA200 = [1,1,1,1,1,1.5,1.7,2.5,2.9,2], ten days *)
(* from 2020-01-01) the golden detector returns exactly 2020-01-05 and the *)
(* death detector exactly 2020-01-10.                                       *)

C4_TestTableAsClaimed ==
    (pc = "detected" /\ df = TestFrame) =>
        /\ golden = <<"2020-01-05">>
        /\ death = <<"2020-01-10">>

\* C4 as amended: on that table the golden detector returns 2020-01-05 and
\* 2020-01-09 (indices 4 and 8) and the death detector 2020-01-08 (index 7)
C4_TestTableCrossings ==
    (pc = "detected" /\ df = TestFrame) =>
        /\ golden = <<"2020-01-05", "2020-01-09">>
        /\ death = <<"2020-01-08">>

C4_Witness == pc = "detected" /\ df = TestFrame /\ Len(golden) = 2 /\ Len(death) = 1

----------------------------------------------------------------------------
(* processor.py: process_data (the second definition, lines 51-126, which  *)
(* replaces the first)                                                      *)

SMA_SHORT_WINDOW == 50

SMA_LONG_WINDOW == 200

HIGH_WINDOW == 252

MIN_PERIODS == 1

WithCol(row, col, val) ==
    [c \in DOMAIN row \cup {col} |-> IF c = col THEN val ELSE row[c]]

\* the sum and the largest of the non-NaN values of x[lo..hi], by halves
RECURSIVE SumRange(_, _, _)
SumRange(x, lo, hi) ==
    IF lo > hi THEN Num(0)
    ELSE IF lo = hi THEN (IF IsNaN(x[lo]) THEN Num(0) ELSE x[lo])
    ELSE RatAdd(SumRange(x, lo, (lo + hi) \div 2), SumRange(x, (lo + hi) \div 2 + 1, hi))

RatMax(a, b) ==
    IF IsNaN(a) THEN b ELSE IF IsNaN(b) THEN a ELSE IF RatLt(a, b) THEN b ELSE a

RECURSIVE MaxRange(_, _, _)
MaxRange(x, lo, hi) ==
    IF lo > hi THEN NaN
    ELSE IF lo = hi THEN x[lo]
    ELSE RatMax(MaxRange(x, lo, (lo + hi) \div 2), MaxRange(x, (lo + hi) \div 2 + 1, hi))

CountRange(x, lo, hi) == Cardinality({j \in lo..hi : ~IsNaN(x[j])})

\* a window one row short
WindowStartShort(i, window) == IF i - window + 2 < 1 THEN 1 ELSE i - window + 2

\* the first row of the window that ends at row i
WindowStart(i, window) == IF i - window + 1 < 1 THEN 1 ELSE i - window + 1

\* Series.rolling(window, min_periods).mean(): over the last `window` rows up to
\* each row, the mean of the non-NaN values, NaN when fewer than min_periods
RollingMean(x, window, minp) ==
    [i \in 1..Len(x) |->
        IF CountRange(x, WindowStart(i, window), i) >= minp
        THEN RatDiv(SumRange(x, WindowStart(i, window), i),
                    Num(CountRange(x, WindowStart(i, window), i)))
        ELSE NaN]

\* Series.rolling(window, min_periods).max()
RollingMax(x, window, minp) ==
    [i \in 1..Len(x) |->
        IF CountRange(x, WindowStart(i, window), i) >= minp
        THEN MaxRange(x, WindowStart(i, window), i)
        ELSE NaN]

\* (close - 52w_high) / 52w_high * 100
PctFromHigh(close, high) == RatMul(RatDiv(RatSub(close, high), high), Num(100))

\* lines 59-68: the prices sorted by date, with the four indicator columns
Technical(prices) ==
    LET rows == SortValues(prices.rows)
        closes == SubSeq([i \in 1..Len(rows) |-> rows[i]["close"]], 1, Len(rows))
        sma50 == RollingMean(closes, SMA_SHORT_WINDOW, MIN_PERIODS)
        sma200 == RollingMean(closes, SMA_LONG_WINDOW, MIN_PERIODS)
        high == RollingMax(closes, HIGH_WINDOW, MIN_PERIODS)
    IN  [columns |-> prices.columns \cup {"SMA50", "SMA200", "52w_high", "pct_from_52w_high"},
         rows |-> [i \in 1..Len(rows) |->
            [c \in DOMAIN rows[i] \cup {"SMA50", "SMA200", "52w_high", "pct_from_52w_high"} |->
                IF c = "SMA50" THEN sma50[i]
                ELSE IF c = "SMA200" THEN sma200[i]
                ELSE IF c = "52w_high" THEN high[i]
                ELSE IF c = "pct_from_52w_high" THEN PctFromHigh(closes[i], high[i])
                ELSE rows[i][c]]]]

\* line 72: fundamentals is not None and hasattr(fundamentals, "T") and not
\* fundamentals.empty (a dict has no attribute T)
FundamentalsPresent(f) == f.kind = "DataFrame" /\ f.fields # {} /\ f.reports # <<>>

\* line 76: pd.to_datetime(fdf.index) raises unless every report label parses
ReportDatesParse(f) == \A i \in 1..Len(f.reports) : f.reports[i].label.ok

RecognizedFields == {"TotalAssets", "TotalLiab", "OrdinarySharesNumber"}

\* lines 79-81: the recognized fields the report has; all its fields when it has none
KeepCols(f) ==
    IF f.fields \cap RecognizedFields # {} THEN f.fields \cap RecognizedFields ELSE f.fields

\* the rows a price row gives in the join: one per report of its date, in the
\* reports' order, or one with the fields missing when no report has its date
JoinedRows(row, f, cols) ==
    LET hits == SelectSeq(f.reports, LAMBDA r : r.label.day = row.date)
    IN  IF hits = <<>>
        THEN <<[c \in DOMAIN row \cup cols |-> IF c \in cols THEN NaN ELSE row[c]]>>
        ELSE [k \in 1..Len(hits) |->
                [c \in DOMAIN row \cup cols |-> IF c \in cols THEN hits[k].vals[c] ELSE row[c]]]

\* a join that keeps only the price rows some report matches
RECURSIVE MergeInner(_, _, _, _, _)
MergeInner(rows, f, cols, lo, hi) ==
    IF lo > hi THEN <<>>
    ELSE IF lo = hi
    THEN (IF \E i \in 1..Len(f.reports) : f.reports[i].label.day = rows[lo].date
          THEN JoinedRows(rows[lo], f, cols) ELSE <<>>)
    ELSE MergeInner(rows, f, cols, lo, (lo + hi) \div 2)
            \o MergeInner(rows, f, cols, (lo + hi) \div 2 + 1, hi)

\* line 84: prices.merge(fdf, left_index=True, right_index=True, how="left"),
\* over the price rows lo..hi
RECURSIVE MergeLeft(_, _, _, _, _)
MergeLeft(rows, f, cols, lo, hi) ==
    IF lo > hi THEN <<>>
    ELSE IF lo = hi THEN JoinedRows(rows[lo], f, cols)
    ELSE MergeLeft(rows, f, cols, lo, (lo + hi) \div 2)
            \o MergeLeft(rows, f, cols, (lo + hi) \div 2 + 1, hi)

\* the last non-NaN value of column c at or before row i, NaN when there is none
LastValid(rows, c, i) ==
    IF i >= 1 /\ ~IsNaN(rows[i][c]) THEN rows[i][c]
    ELSE LET valid == {j \in 1..i : ~IsNaN(rows[j][c])}
         IN  IF valid = {} THEN NaN
             ELSE rows[CHOOSE j \in valid : \A k \in valid : k <= j][c]

\* line 87: merged.ffill(), on every column (the date is the index)
FFill(rows) ==
    [i \in 1..Len(rows) |->
        [c \in DOMAIN rows[i] |-> IF c = "date" THEN rows[i][c] ELSE LastValid(rows, c, i)]]

\* lines 70-91: the metrics table with the fundamentals merged in; a failure
\* inside the try leaves the table as it was
Merged(tech, f) ==
    IF ~FundamentalsPresent(f) THEN tech
    ELSE IF ~ReportDatesParse(f) THEN tech
    ELSE [columns |-> tech.columns \cup KeepCols(f),
          rows |-> FFill(MergeLeft(tech.rows, f, KeepCols(f), 1, Len(tech.rows)))]

\* dict.get(key): None when the key is absent
InfoGet(info, key) == IF key \in DOMAIN info THEN info[key] ELSE PyNone

\* lines 96-112: the book value per share, None when it cannot be had
Bvps(frame, info) ==
    IF "bookValue" \in DOMAIN info /\ Truthy(info["bookValue"]) THEN info["bookValue"]
    ELSE IF /\ "TotalAssets" \in frame.columns
            /\ "OrdinarySharesNumber" \in frame.columns
            /\ \E i \in 1..Len(frame.rows) : ~IsNaN(frame.rows[i]["OrdinarySharesNumber"])
    THEN LET last_assets == LastValid(frame.rows, "TotalAssets", Len(frame.rows))
             last_shares == LastValid(frame.rows, "OrdinarySharesNumber", Len(frame.rows))
         IN  IF Truthy(last_shares) /\ RatGt(last_shares, Num(0))
             THEN RatDiv(last_assets, last_shares)
             ELSE PyNone
    ELSE PyNone

\* a bvps column written whenever the value is truthy, whatever its sign
BvpsUsableAnySign(bvps) == Truthy(bvps)

\* line 114: if bvps and bvps > 0
BvpsUsable(bvps) == Truthy(bvps) /\ RatGt(bvps, Num(0))

RatioColumns == {"bvps", "pb_ratio", "enterprise_value"}

\* lines 114-123: the bvps, pb_ratio and enterprise_value columns
WithRatios(frame, info) ==
    LET bvps == Bvps(frame, info)
        ev == InfoGet(info, "enterpriseValue")
    IN  [columns |-> frame.columns \cup RatioColumns,
         rows |-> [i \in 1..Len(frame.rows) |->
            [c \in DOMAIN frame.rows[i] \cup RatioColumns |->
                IF c = "bvps" THEN (IF BvpsUsable(bvps) THEN bvps ELSE NaN)
                ELSE IF c = "pb_ratio"
                    THEN (IF BvpsUsable(bvps) THEN RatDiv(frame.rows[i]["close"], bvps) ELSE NaN)
                ELSE IF c = "enterprise_value" THEN (IF Truthy(ev) THEN ev ELSE NaN)
                ELSE frame.rows[i][c]]]]

process_data(r) == WithRatios(Merged(Technical(r.prices), r.fundamentals), r.info)

----------------------------------------------------------------------------
(* process_data on its own, over bounded inputs: price series of distinct  *)
(* dates in any row order, fundamentals absent, a dict, or a report table  *)
(* whose report dates need not be trading dates, and company info          *)

\* the days the price rows and the reports are dated
MaxProcDay == 3

ProcDays == 1..MaxProcDay

ProcCloses == {0, 1, 2}

PriceColumns == {"date", "open", "high", "low", "close", "volume"}

\* a bar of day d closing at c
Bar(d, c) ==
    [k \in PriceColumns |->
        IF k = "date" THEN d
        ELSE IF k = "high" THEN Num(c + 1)
        ELSE IF k = "volume" THEN Num(100 * d)
        ELSE Num(c)]

PriceFrame(rows) == [columns |-> PriceColumns, rows |-> rows]

AllBars == {Bar(d, c) : d \in ProcDays, c \in ProcCloses}

\* every series of 1..MaxProcDay bars of distinct dates, in every row order
AllPriceFrames ==
    {PriceFrame(rows) :
        rows \in {q \in UNION {[1..n -> AllBars] : n \in 1..MaxProcDay} : DistinctDates(q)}}

\* the same with the close tied to the day (day 3 closes at 0)
FewPriceFrames ==
    {fr \in AllPriceFrames :
        \A i \in 1..Len(fr.rows) : fr.rows[i]["close"] = Num(fr.rows[i].date % 3)}

ReportLabels ==
    {[ok |-> TRUE, day |-> d] : d \in ProcDays} \cup {[ok |-> FALSE, day |-> 0]}

ReportFields == RecognizedFields \cup {"CashAndCashEquivalents"}

FieldSets ==
    {RecognizedFields, {"TotalAssets", "CashAndCashEquivalents"}, {"CashAndCashEquivalents"}}

ReportLevels == {0, 1, 2}

\* the values of a report of level v, on the fields fs
ReportVals(fs, v) ==
    [c \in fs |->
        IF c = "TotalAssets" THEN Num(6 * v)
        ELSE IF c = "OrdinarySharesNumber" THEN (IF v = 0 THEN Num(0) ELSE Num(v + 1))
        ELSE Num(v)]

ReportCounts == {0, 1, 2}

DistinctLabels(reports) ==
    \A i \in 1..Len(reports), j \in 1..Len(reports) :
        reports[i].label = reports[j].label => i = j

ReportTables ==
    UNION {
        {[kind |-> "DataFrame", fields |-> fs,
          reports |-> [i \in 1..Len(q) |-> [label |-> q[i][1], vals |-> ReportVals(fs, q[i][2])]]] :
            q \in {x \in UNION {[1..n -> ReportLabels \X ReportLevels] : n \in ReportCounts} :
                    \A i \in 1..Len(x), j \in 1..Len(x) : x[i][1] = x[j][1] => i = j}} :
        fs \in FieldSets}

NoFundamentals == [kind |-> "None", fields |-> {}, reports |-> <<>>]

\* what fetch_stock_data hands over: DataFrame.to_dict() of the balance sheet
DictFundamentals(f) == [kind |-> "dict", fields |-> f.fields, reports |-> f.reports]

\* one report, dated day 2, with the recognized fields
OneReport ==
    [kind |-> "DataFrame", fields |-> RecognizedFields,
     reports |-> <<[label |-> [ok |-> TRUE, day |-> 2], vals |-> ReportVals(RecognizedFields, 1)]>>]

AllFundamentals == ReportTables \cup {NoFundamentals, DictFundamentals(OneReport)}

FewFundamentals == {NoFundamentals, DictFundamentals(OneReport), OneReport}

BookValues == {0, 2, -2}

EnterpriseValues == {0, 7}

Info(bv, ev) ==
    [k \in (IF bv = {} THEN {} ELSE {"bookValue"}) \cup (IF ev = {} THEN {} ELSE {"enterpriseValue"}) |->
        IF k = "bookValue" THEN Num(CHOOSE x \in bv : TRUE) ELSE Num(CHOOSE x \in ev : TRUE)]

AllInfos ==
    {Info(bv, ev) : bv \in {{}} \cup {{x} : x \in BookValues},
                    ev \in {{}} \cup {{x} : x \in EnterpriseValues}}

FewInfos == {Info({}, {}), Info({2}, {})}

Raw(prices, f, info) ==
    [kind |-> "raw", prices |-> prices, fundamentals |-> f, info |-> info]

ProcInputs ==
    {Raw(p, f, Info({}, {})) : p \in AllPriceFrames, f \in FewFundamentals}
    \cup {Raw(p, f, i) : p \in FewPriceFrames, f \in AllFundamentals, i \in FewInfos}
    \cup {Raw(p, f, i) : p \in FewPriceFrames, f \in FewFundamentals, i \in AllInfos}

InitProcess ==
    /\ pc = "process"
    /\ raw \in ProcInputs
    /\ provider = NoProvider
    /\ df = NoFrame
    /\ golden = <<>>
    /\ death = <<>>
    /\ signal_events = {}
    /\ daily_metrics = {}
    /\ dbCall = NoCall
    /\ lastSaved = NoSaved
    /\ calls = <<>>
    /\ escaped = FALSE
    /\ summary = NoSummary

ProcessCall ==
    /\ pc = "process"
    /\ df' = process_data(raw)
    /\ pc' = "processed"
    /\ UNCHANGED <<provider, raw, golden, death, signal_events, daily_metrics, dbCall,
                   lastSaved, calls, escaped, summary>>

SpecProcess == InitProcess /\ [][ProcessCall]_vars

----------------------------------------------------------------------------
(* C5: after the fundamentals merge, every trading day on or after the     *)
(* earliest report date carries, for each joined field, the value of the   *)
(* most recent report dated on or before that day, and every trading day   *)
(* before the earliest report date has the field absent, whether or not    *)
(* the report dates are trading dates.                                      *)

MergeRan(r) == FundamentalsPresent(r.fundamentals) /\ ReportDatesParse(r.fundamentals)

ReportsUpTo(f, d) == {j \in 1..Len(f.reports) : f.reports[j].label.day <= d}

LatestReportUpTo(f, d) ==
    f.reports[CHOOSE j \in ReportsUpTo(f, d) :
        \A k \in ReportsUpTo(f, d) : f.reports[k].label.day <= f.reports[j].label.day]

C5_EveryDayCarriesLatestReport ==
    (pc = "processed" /\ MergeRan(raw)) =>
        \A i \in 1..Len(df.rows), c \in KeepCols(raw.fundamentals) :
            IF ReportsUpTo(raw.fundamentals, df.rows[i].date) = {}
            THEN IsNaN(df.rows[i][c])
            ELSE SameCell(df.rows[i][c],
                          LatestReportUpTo(raw.fundamentals, df.rows[i].date).vals[c])

----------------------------------------------------------------------------
(* C6: whenever the info mapping's bookValue is present and non-zero, the  *)
(* bvps column of every row of process_data's result equals it, whatever   *)
(* the merged TotalAssets / OrdinarySharesNumber are.                       *)

C6_DirectBookValueIsTheColumn ==
    (/\ pc = "processed"
     /\ "bookValue" \in DOMAIN raw.info
     /\ raw.info["bookValue"][1] # 0) =>
        \A i \in 1..Len(df.rows) : SameCell(df.rows[i]["bvps"], raw.info["bookValue"])

----------------------------------------------------------------------------
(* C7: for a price series of N rows with distinct dates and any            *)
(* fundamentals input, process_data returns exactly N rows, one per input  *)
(* date, in ascending date order, whatever the order of the input rows.    *)

C7_OneRowPerDateAscending ==
    pc = "processed" =>
        /\ Len(df.rows) = Len(raw.prices.rows)
        /\ {df.rows[i].date : i \in 1..Len(df.rows)}
            = {raw.prices.rows[i].date : i \in 1..Len(raw.prices.rows)}
        /\ \A i \in 1..Len(df.rows), j \in 1..Len(df.rows) :
            i < j => df.rows[i].date < df.rows[j].date

\* three rows given out of order, with a report table merged in, some day unmatched
C7_Witness ==
    /\ pc = "processed"
    /\ MergeRan(raw)
    /\ Len(raw.prices.rows) = 3
    /\ raw.prices.rows[1].date > raw.prices.rows[2].date
    /\ Len(df.rows) = 3
    /\ \E i \in 1..3 : IsNaN(df.rows[i]["TotalAssets"])
    /\ \E i \in 1..3 : ~IsNaN(df.rows[i]["TotalAssets"])

\* ---------------------------------------------------------------------------
\* process_data on long price series: the rolling windows
\* ---------------------------------------------------------------------------

\* how far past each window the long series reach
MaxOver == 1

\* the closes of test_pipeline_handles_recent_ipo
RecentIpoCloses == <<10, 11, 12, 11, 13>>

RollCloses == {1, 2, 3}

\* the price series, in chronological order, that closes at the given values
SeriesOf(closes) == PriceFrame([i \in 1..Len(closes) |-> Bar(i, closes[i])])

\* n closes at a for the first k rows and at b afterwards
StepCloses(n, k, a, b) == [i \in 1..n |-> IF i <= k THEN a ELSE b]

\* lengths just under, at and just over each window
LongLens ==
    UNION {(w - 1)..(w + MaxOver) : w \in {SMA_SHORT_WINDOW, SMA_LONG_WINDOW, HIGH_WINDOW}}

ShortSeries == {SeriesOf(q) : q \in UNION {[1..n -> RollCloses] : n \in 1..3}}

LongSeries ==
    {SeriesOf(StepCloses(n, k, p[1], p[2])) :
        n \in LongLens, k \in {1, 2}, p \in {<<1, 2>>, <<2, 1>>}}

RollInputs ==
    {Raw(p, NoFundamentals, Info({}, {})) :
        p \in ShortSeries \cup LongSeries \cup {SeriesOf(RecentIpoCloses)}}

InitRolling ==
    /\ pc = "process"
    /\ raw \in RollInputs
    /\ provider = NoProvider
    /\ df = NoFrame
    /\ golden = <<>>
    /\ death = <<>>
    /\ signal_events = {}
    /\ daily_metrics = {}
    /\ dbCall = NoCall
    /\ lastSaved = NoSaved
    /\ calls = <<>>
    /\ escaped = FALSE
    /\ summary = NoSummary

SpecRolling == InitRolling /\ [][ProcessCall]_vars

\* the closes of the input, row by row
InputCloses == [j \in 1..Len(raw.prices.rows) |-> raw.prices.rows[j]["close"]]

\* the first row of the window that reaches `back` rows behind row i
FirstOfWindow(i, back) == IF i - back < 1 THEN 1 ELSE i - back

\* the total of close[lo..hi], value by value
RECURSIVE TotalOfValues(_, _, _, _)
TotalOfValues(vs, x, lo, hi) ==
    IF vs = {} THEN Num(0)
    ELSE LET v == CHOOSE w \in vs : TRUE
         IN  RatAdd(RatMul(v, Num(Cardinality({j \in lo..hi : x[j] = v}))),
                    TotalOfValues(vs \ {v}, x, lo, hi))

\* m is the mean of close[lo..hi]
IsMeanOf(m, x, lo, hi) ==
    /\ ~IsNaN(m)
    /\ RatEq(RatMul(m, Num(hi - lo + 1)), TotalOfValues({x[j] : j \in lo..hi}, x, lo, hi))

\* m is the largest of close[lo..hi]
IsMaxOf(m, x, lo, hi) ==
    /\ ~IsNaN(m)
    /\ \E j \in lo..hi : RatEq(x[j], m)
    /\ \A j \in lo..hi : RatLe(x[j], m)

\* C8: on a chronological price series of any length N >= 1 the output has N
\* rows and on every row i SMA50 is the mean of the closes of the last 50 rows
\* up to i (of all rows so far when fewer exist), SMA200 the mean of the last
\* 200, 52w_high the largest close of the last 252, none of them null
C8_WindowsOverAvailableHistory ==
    pc = "processed" =>
        /\ Len(df.rows) = Len(raw.prices.rows)
        /\ \A i \in 1..Len(df.rows) :
            /\ df.rows[i].date = raw.prices.rows[i].date
            /\ IsMeanOf(df.rows[i]["SMA50"], InputCloses, FirstOfWindow(i, 49), i)
            /\ IsMeanOf(df.rows[i]["SMA200"], InputCloses, FirstOfWindow(i, 199), i)
            /\ IsMaxOf(df.rows[i]["52w_high"], InputCloses, FirstOfWindow(i, 251), i)

\* a series longer than every window whose first close, the highest, has left
\* the 252-row window of the last row
C8_Witness ==
    /\ pc = "processed"
    /\ Len(df.rows) > HIGH_WINDOW
    /\ RatGt(raw.prices.rows[1]["close"], raw.prices.rows[Len(df.rows)]["close"])
    /\ RatLt(df.rows[Len(df.rows)]["52w_high"], df.rows[1]["52w_high"])
    /\ RatLt(df.rows[Len(df.rows)]["SMA50"], df.rows[SMA_SHORT_WINDOW]["SMA50"])

----------------------------------------------------------------------------
(* data_fetcher.py, models.py: normalization of what the provider returns  *)

\* a cell that holds text instead of a number
Text == <<"one hundred">>

IsText(c) == Len(c) = 1

\* DailyPrice(**row): every field is required, the prices coerce to float
\* (NaN is a float), the volume to int; there is no validator across fields
Validates(row) ==
    /\ PriceColumns \subseteq DOMAIN row
    /\ \A k \in {"open", "high", "low", "close"} : ~IsText(row[k])
    /\ ~IsText(row["volume"]) /\ ~IsNaN(row["volume"]) /\ row["volume"][2] = 1

\* validated.dict(): the six fields of the schema
DailyPriceDict(row) == [k \in PriceColumns |-> row[k]]

\* lines 52-60: the rows that validate, in order, as a table
ValidatedRows(hist) ==
    LET ok == SelectSeq(hist, LAMBDA row : Validates(row))
    IN  [i \in 1..Len(ok) |-> DailyPriceDict(ok[i])]

EmptyDict == [kind |-> "dict", fields |-> {}, reports |-> <<>>]

\* lines 62-68: {} unless the balance sheet came as a non-empty table, then its
\* to_dict()
FetchedFundamentals(qbs) ==
    IF qbs.kind = "DataFrame" /\ qbs.fields # {} /\ qbs.reports # <<>>
    THEN DictFundamentals(qbs)
    ELSE EmptyDict

\* lines 69-73: tk.info, {} when reading it fails
FetchedInfo(info) == IF info.ok THEN info.val ELSE Info({}, {})

RawNone == [kind |-> "None"]

\* lines 36-79 when the provider answers: None when no row validates
fetch_stock_data(p) ==
    IF ValidatedRows(p.hist) = <<>>
    THEN RawNone
    ELSE Raw(PriceFrame(ValidatedRows(p.hist)), FetchedFundamentals(p.qbs),
             FetchedInfo(p.info))

----------------------------------------------------------------------------
(* main.py *)

Lowercase == <<"a", "b", "c", "d", "e", "f", "g", "h", "i", "j", "k", "l", "m",
               "n", "o", "p", "q", "r", "s", "t", "u", "v", "w", "x", "y", "z">>

Uppercase == <<"A", "B", "C", "D", "E", "F", "G", "H", "I", "J", "K", "L", "M",
               "N", "O", "P", "Q", "R", "S", "T", "U", "V", "W", "X", "Y", "Z">>

\* str.upper(), character by character
Upper(chars) ==
    [i \in 1..Len(chars) |->
        IF \E j \in 1..26 : Lowercase[j] = chars[i]
        THEN Uppercase[CHOOSE j \in 1..26 : Lowercase[j] = chars[i]]
        ELSE chars[i]]

\* str.strip()
RECURSIVE Strip(_)
Strip(chars) ==
    IF chars = <<>> THEN chars
    ELSE IF Head(chars) = " " THEN Strip(Tail(chars))
    ELSE IF chars[Len(chars)] = " " THEN Strip(SubSeq(chars, 1, Len(chars) - 1))
    ELSE chars

RECURSIVE Joined(_)
Joined(chars) == IF chars = <<>> THEN "" ELSE Head(chars) \o Joined(Tail(chars))

\* lines 128-147, on the characters of the option
normalize_ticker(chars) ==
    LET t == Upper(Strip(chars))
    IN  IF \E i \in 1..Len(t) : t[i] = "." THEN Joined(t)
        ELSE IF Len(t) > 4 THEN Joined(t) \o ".NS"
        ELSE Joined(t)

\* a run that goes on whatever fetch_stock_data returned
RawIsNoneIgnored(r) == FALSE

\* line 47: raw is None
RawIsNone(r) == r.kind = "None"

\* a null test that finds nothing null
IsNANever(c) == FALSE

\* pd.isna
IsNA(c) == IsNaN(c) \/ c = PyNone

CoreFields ==
    {"SMA50", "SMA200", "52w_high", "pct_from_52w_high", "bvps", "pb_ratio", "enterprise_value"}

\* lines 88-125
assess_data_quality(frame) ==
    IF frame.rows = <<>> THEN "missing"
    ELSE LET latest == frame.rows[Len(frame.rows)]
             available == Cardinality({f \in CoreFields : f \in DOMAIN latest /\ ~IsNA(latest[f])})
         IN  IF available = Cardinality(CoreFields) THEN "complete"
             ELSE IF available > 0 THEN "partial"
             ELSE "missing"

SummaryCols ==
    {"date", "close", "SMA50", "SMA200", "52w_high", "pct_from_52w_high",
     "bvps", "pb_ratio", "enterprise_value"}

\* lines 62-83: the JSON document written to the output file
Result(ticker, frame, g, d) ==
    LET sorted == SortValues(frame.rows)
        latest_row == sorted[Len(sorted)]
    IN  [kind |-> "written",
         ticker |-> ticker,
         golden_crosses |-> g,
         death_crosses |-> d,
         latest |-> [k \in SummaryCols \cap DOMAIN latest_row |->
                        IF k = "date" THEN DateStr(latest_row[k]) ELSE latest_row[k]],
         data_quality |-> IF frame.rows # <<>> THEN assess_data_quality(frame) ELSE "missing"]

----------------------------------------------------------------------------
(* One run of the pipeline (main.run) against what the provider holds      *)

\* days of the short histories
MaxHistDays == 2

BarKinds == {"flat", "up", "inverted", "text", "novolume"}

\* what the provider's history holds for day d: the six columns and Adj Close
HistBar(d, kind) ==
    [k \in PriceColumns \cup {"Adj Close"} |->
        IF k = "date" THEN d
        ELSE IF k = "volume" THEN (IF kind = "novolume" THEN NaN ELSE Num(100 * d))
        ELSE IF k = "close" THEN
            (IF kind = "text" THEN Text ELSE IF kind = "up" THEN Num(2) ELSE Num(1))
        ELSE IF k = "high" THEN (IF kind = "inverted" THEN Num(1) ELSE Num(3))
        ELSE IF k = "low" THEN (IF kind = "inverted" THEN Num(2) ELSE Num(1))
        ELSE Num(1)]

\* histories of 0..MaxHistDays consecutive days, each day of any kind
ShortHistories ==
    UNION {{[i \in 1..n |-> HistBar(i, q[i])] : q \in [1..n -> BarKinds]} : n \in 0..MaxHistDays}

\* a history that came without its close column
WithoutClose(hist) ==
    [i \in 1..Len(hist) |-> [k \in DOMAIN hist[i] \ {"close"} |-> hist[i][k]]]

\* one day past the short window, the last day closing apart from the others
LongHistories ==
    {[i \in 1..(SMA_SHORT_WINDOW + 1) |->
        HistBar(i, IF i <= SMA_SHORT_WINDOW THEN p[1] ELSE p[2])] :
            p \in {<<"flat", "up">>, <<"up", "flat">>}}

Histories ==
    ShortHistories \cup LongHistories \cup {WithoutClose(<<HistBar(1, "flat"), HistBar(2, "up")>>)}

BalanceSheets == {[kind |-> "raises"], [kind |-> "DataFrame", fields |-> {}, reports |-> <<>>], OneReport}

ProviderInfos == {[ok |-> FALSE, val |-> Info({}, {})]} \cup {[ok |-> TRUE, val |-> i] : i \in FewInfos}

Options == {<<" ", "a", "a", "p", "l">>, <<"R", "e", "l", "i", "a", "n", "c", "e">>, <<"b", "p", ".", "l">>}

FewOptions == {<<" ", "a", "a", "p", "l">>}

Providers ==
    {[kind |-> "history", option |-> o, hist |-> h, qbs |-> b, info |-> i] :
        o \in FewOptions, h \in Histories,
        b \in BalanceSheets, i \in ProviderInfos}
    \cup {[kind |-> "history", option |-> o, hist |-> h, qbs |-> OneReport,
           info |-> [ok |-> TRUE, val |-> Info({2}, {})]] :
        o \in Options, h \in {<<>>, <<HistBar(1, "flat")>>, <<HistBar(1, "text")>>}}
    \cup {[kind |-> "error", option |-> o, hist |-> <<>>, qbs |-> [kind |-> "raises"],
           info |-> [ok |-> FALSE, val |-> Info({}, {})]] : o \in Options}

Init ==
    /\ pc = "start"
    /\ provider \in Providers
    /\ raw = NoRaw
    /\ df = NoFrame
    /\ golden = <<>>
    /\ death = <<>>
    /\ signal_events = {}
    /\ daily_metrics = {}
    /\ dbCall = NoCall
    /\ lastSaved = NoSaved
    /\ calls = <<>>
    /\ escaped = FALSE
    /\ summary = NoSummary

\* the ticker the run works on (main.py line 40)
Ticker == normalize_ticker(provider.option)

\* line 46, the provider answering
Fetch ==
    /\ pc = "start"
    /\ provider.kind = "history"
    /\ raw' = fetch_stock_data(provider)
    /\ calls' = Append(calls, "fetch_stock_data")
    /\ pc' = "fetched"
    /\ UNCHANGED <<provider, df, golden, death, signal_events, daily_metrics, dbCall,
                   lastSaved, escaped, summary>>

\* line 46, the request failing: fetch_stock_data logs and raises again
\* (data_fetcher.py lines 81-83) and run does not catch
FetchRaises ==
    /\ pc = "start"
    /\ provider.kind = "error"
    /\ calls' = Append(calls, "fetch_stock_data")
    /\ escaped' = TRUE
    /\ pc' = "raised"
    /\ UNCHANGED <<provider, raw, df, golden, death, signal_events, daily_metrics, dbCall,
                   lastSaved, summary>>

\* lines 47-49
NoData ==
    /\ pc = "fetched"
    /\ RawIsNone(raw)
    /\ calls' = Append(calls, "echo No price data")
    /\ pc' = "done"
    /\ UNCHANGED <<provider, raw, df, golden, death, signal_events, daily_metrics, dbCall,
                   lastSaved, escaped, summary>>

\* lines 50-53; process_data(None) raises at raw["prices"]
RunProcess ==
    /\ pc = "fetched"
    /\ ~RawIsNone(raw)
    /\ calls' = Append(calls, "process_data")
    /\ IF raw.kind = "None"
       THEN escaped' = TRUE /\ pc' = "raised" /\ df' = df
       ELSE escaped' = escaped /\ pc' = "run_golden" /\ df' = process_data(raw)
    /\ UNCHANGED <<provider, raw, golden, death, signal_events, daily_metrics, dbCall,
                   lastSaved, summary>>

\* line 54
RunDetectGolden ==
    /\ pc = "run_golden"
    /\ golden' = detect_golden_crossover(df)
    /\ calls' = Append(calls, "detect_golden_crossover")
    /\ pc' = "run_death"
    /\ UNCHANGED <<provider, raw, df, death, signal_events, daily_metrics, dbCall,
                   lastSaved, escaped, summary>>

\* line 55
RunDetectDeath ==
    /\ pc = "run_death"
    /\ death' = detect_death_cross(df)
    /\ calls' = Append(calls, "detect_death_cross")
    /\ pc' = "run_init_db"
    /\ UNCHANGED <<provider, raw, df, golden, signal_events, daily_metrics, dbCall,
                   lastSaved, escaped, summary>>

\* line 57: the tables are created where they do not exist
RunInitDb ==
    /\ pc = "run_init_db"
    /\ calls' = Append(calls, "init_db")
    /\ pc' = "run_save_metrics"
    /\ UNCHANGED <<provider, raw, df, golden, death, signal_events, daily_metrics, dbCall,
                   lastSaved, escaped, summary>>

\* line 58
RunSaveDailyMetrics ==
    /\ pc = "run_save_metrics"
    /\ daily_metrics' = save_daily_metrics(daily_metrics, Ticker, df.rows)
    /\ dbCall' = [op |-> "save_daily_metrics", ticker |-> Ticker, arg |-> <<>>, type_ |-> ""]
    /\ calls' = Append(calls, "save_daily_metrics")
    /\ pc' = "run_save_golden"
    /\ UNCHANGED <<provider, raw, df, golden, death, signal_events, lastSaved, escaped,
                   summary>>

\* line 59
RunSaveGolden ==
    /\ pc = "run_save_golden"
    /\ signal_events' = save_signals(signal_events, Ticker, golden, "GoldenCross")
    /\ dbCall' = [op |-> "save_signals", ticker |-> Ticker, arg |-> golden, type_ |-> "GoldenCross"]
    /\ calls' = Append(calls, "save_signals")
    /\ pc' = "run_save_death"
    /\ UNCHANGED <<provider, raw, df, golden, death, daily_metrics, lastSaved, escaped,
                   summary>>

\* line 60
RunSaveDeath ==
    /\ pc = "run_save_death"
    /\ signal_events' = save_signals(signal_events, Ticker, death, "DeathCross")
    /\ dbCall' = [op |-> "save_signals", ticker |-> Ticker, arg |-> death, type_ |-> "DeathCross"]
    /\ calls' = Append(calls, "save_signals")
    /\ pc' = "run_summary"
    /\ UNCHANGED <<provider, raw, df, golden, death, daily_metrics, lastSaved, escaped,
                   summary>>

\* lines 62-85
WriteSummary ==
    /\ pc = "run_summary"
    /\ summary' = Result(Ticker, df, golden, death)
    /\ calls' = Append(Append(calls, "json.dump"), "echo Saved analysis")
    /\ pc' = "done"
    /\ UNCHANGED <<provider, raw, df, golden, death, signal_events, daily_metrics, dbCall,
                   lastSaved, escaped>>

Next ==
    \/ Fetch
    \/ FetchRaises
    \/ NoData
    \/ RunProcess
    \/ RunDetectGolden
    \/ RunDetectDeath
    \/ RunInitDb
    \/ RunSaveDailyMetrics
    \/ RunSaveGolden
    \/ RunSaveDeath
    \/ WriteSummary

Spec == Init /\ [][Next]_vars

----------------------------------------------------------------------------
(* C9 *)

\* the bars of the provider's history that coerce and have high >= low
UsableBar(row) == Validates(row) /\ ~RatLt(row["high"], row["low"])

NormalizedRows == IF raw = RawNone THEN <<>> ELSE raw.prices.rows

\* C9: normalization filters rows one by one: the normalized price series
\* holds, in order, exactly the raw bars that coerce and have high >= low;
\* every bar that fails coercion or has high < low is absent, every other bar
\* is present
C9_OnlyUsableBarsAreKept ==
    pc = "fetched" =>
        LET ok == SelectSeq(provider.hist, LAMBDA row : UsableBar(row))
        IN  NormalizedRows = [i \in 1..Len(ok) |-> DailyPriceDict(ok[i])]

----------------------------------------------------------------------------
(* C10 *)

\* the provider answered and no row of its history validates
NoUsableRow ==
    provider.kind = "history" /\ \A i \in 1..Len(provider.hist) : ~Validates(provider.hist[i])

Downstream ==
    {"process_data", "detect_golden_crossover", "detect_death_cross", "init_db",
     "save_daily_metrics", "save_signals", "json.dump"}

\* C10: when no usable price row remains after normalization the run reports
\* no data and stops: process_data, the two detectors, init_db,
\* save_daily_metrics, save_signals and the summary write are never executed,
\* nothing of theirs is left behind and no exception escapes
C10_NoDataStopsTheRun ==
    (NoUsableRow /\ pc # "start") =>
        /\ pc \in {"fetched", "done"}
        /\ \A i \in 1..Len(calls) : calls[i] \notin Downstream
        /\ pc = "done" => calls = <<"fetch_stock_data", "echo No price data">>
        /\ ~escaped
        /\ df = NoFrame /\ golden = <<>> /\ death = <<>>
        /\ signal_events = {} /\ daily_metrics = {} /\ dbCall = NoCall
        /\ summary = NoSummary

\* a history of two bars, neither of which validates, and the run ended
C10_Witness ==
    /\ pc = "done"
    /\ NoUsableRow
    /\ Len(provider.hist) = 2
    /\ calls = <<"fetch_stock_data", "echo No price data">>
    /\ ~escaped

----------------------------------------------------------------------------
(* C11 *)

\* a non-empty report table of which some report date parses and some does not
OneDateUnparseable(f) ==
    /\ FundamentalsPresent(f)
    /\ \E i \in 1..Len(f.reports) : ~f.reports[i].label.ok
    /\ \E i \in 1..Len(f.reports) : f.reports[i].label.ok

\* C11: when one report date of a non-empty report table fails to parse and
\* the others parse, only that report is dropped from the join: every report
\* with a valid date is still joined, so the trading day of its date carries
\* its values in the joined fields
C11_ValidReportsStillJoined ==
    (pc = "processed" /\ OneDateUnparseable(raw.fundamentals)) =>
        \A i \in 1..Len(df.rows), j \in 1..Len(raw.fundamentals.reports) :
            (/\ raw.fundamentals.reports[j].label.ok
             /\ raw.fundamentals.reports[j].label.day = df.rows[i].date) =>
                \A c \in KeepCols(raw.fundamentals) :
                    /\ c \in DOMAIN df.rows[i]
                    /\ SameCell(df.rows[i][c], raw.fundamentals.reports[j].vals[c])

----------------------------------------------------------------------------
(* assess_data_quality on its own, over metrics tables in date order       *)

\* rows of the tables classified
MaxQualityRows == 2

\* what a table holds for a core field on a row: a value, a null, or no column
FieldStates == {"value", "null", "absent"}

QualityRow(d, st) ==
    [c \in {"date", "close"} \cup {f \in CoreFields : st[f] # "absent"} |->
        IF c = "date" THEN d
        ELSE IF c = "close" THEN Num(1)
        ELSE IF st[c] = "null" THEN NaN
        ELSE Num(1)]

\* the earlier rows hold, on the columns of the last row, all values or all nulls
EarlierStates(st) ==
    {[f \in CoreFields |-> IF st[f] = "absent" THEN "absent" ELSE v] : v \in {"value", "null"}}

QualityFrames ==
    {NoFrame} \cup
    UNION {UNION {
        {[columns |-> DOMAIN QualityRow(n, st),
          rows |-> [i \in 1..n |-> IF i = n THEN QualityRow(i, st) ELSE QualityRow(i, e)]] :
            e \in EarlierStates(st)} :
        st \in [CoreFields -> FieldStates]} : n \in 1..MaxQualityRows}

InitQuality ==
    /\ pc = "assess"
    /\ df \in QualityFrames
    /\ provider = NoProvider
    /\ raw = NoRaw
    /\ golden = <<>>
    /\ death = <<>>
    /\ signal_events = {}
    /\ daily_metrics = {}
    /\ dbCall = NoCall
    /\ lastSaved = NoSaved
    /\ calls = <<>>
    /\ escaped = FALSE
    /\ summary = NoSummary

AssessCall ==
    /\ pc = "assess"
    /\ summary' = [kind |-> "quality", data_quality |-> assess_data_quality(df)]
    /\ pc' = "assessed"
    /\ UNCHANGED <<provider, raw, df, golden, death, signal_events, daily_metrics, dbCall,
                   lastSaved, calls, escaped>>

SpecQuality == InitQuality /\ [][AssessCall]_vars

\* the core fields that the row of the latest date holds non-null
HeldOnLatestRow ==
    LET latest == CHOOSE r \in {df.rows[i] : i \in 1..Len(df.rows)} :
                    \A i \in 1..Len(df.rows) : df.rows[i].date <= r.date
    IN  {f \in {"SMA50", "SMA200", "52w_high", "pct_from_52w_high", "bvps", "pb_ratio",
                "enterprise_value"} : f \in DOMAIN latest /\ latest[f] # NaN}

\* C12: the classification goes by the chronologically-last row over the seven
\* core fields: "complete" exactly when all seven are present and non-null,
\* "missing" exactly when none is or the table is empty, "partial" otherwise
C12_QualityOfLatestRow ==
    pc = "assessed" =>
        IF df.rows = <<>> THEN summary.data_quality = "missing"
        ELSE /\ summary.data_quality = "complete" <=> Cardinality(HeldOnLatestRow) = 7
             /\ summary.data_quality = "missing" <=> HeldOnLatestRow = {}
             /\ summary.data_quality = "partial" <=> Cardinality(HeldOnLatestRow) \in 1..6

\* two rows, the earlier one all null, the latest missing only enterprise_value
C12_Witness ==
    /\ pc = "assessed"
    /\ Len(df.rows) = 2
    /\ CoreFields \subseteq df.columns
    /\ \A f \in CoreFields : IsNaN(df.rows[1][f])
    /\ IsNaN(df.rows[2]["enterprise_value"])
    /\ \A f \in CoreFields \ {"enterprise_value"} : ~IsNaN(df.rows[2][f])
    /\ summary.data_quality = "partial"

----------------------------------------------------------------------------
(* C13 *)

\* the provider answered with a non-empty quarterly balance sheet
BalanceSheetObtained ==
    /\ provider.kind = "history"
    /\ provider.qbs.kind = "DataFrame"
    /\ provider.qbs.fields # {}
    /\ provider.qbs.reports # <<>>

\* C13: in a run, whenever fetch_stock_data obtains a non-empty quarterly
\* balance sheet, the fundamentals it hands to process_data pass the presence
\* check and are merged, so the metrics table of the run has the report
\* fields, carrying the report's values from the report's date on
C13_FetchedBalanceSheetIsMerged ==
    (pc = "run_golden" /\ BalanceSheetObtained) =>
        /\ FundamentalsPresent(raw.fundamentals)
        /\ KeepCols(provider.qbs) \subseteq df.columns
        /\ \A i \in 1..Len(df.rows), j \in 1..Len(provider.qbs.reports) :
            provider.qbs.reports[j].label.day = df.rows[i].date =>
                \A c \in KeepCols(provider.qbs) :
                    SameCell(df.rows[i][c], provider.qbs.reports[j].vals[c])

----------------------------------------------------------------------------
(* process_data with and without a fundamentals report, on short series    *)
(* and on series that outlast the 252-row window, closes of zero included   *)

OutlastingSeries ==
    {SeriesOf(StepCloses(n, 1, p[1], p[2])) :
        n \in HIGH_WINDOW..(HIGH_WINDOW + MaxOver), p \in {<<1, 0>>, <<0, 1>>, <<2, 1>>}}

MergeInputs ==
    {Raw(p, f, Info({}, {})) : p \in AllPriceFrames \cup OutlastingSeries, f \in FewFundamentals}

InitMerge ==
    /\ pc = "process"
    /\ raw \in MergeInputs
    /\ provider = NoProvider
    /\ df = NoFrame
    /\ golden = <<>>
    /\ death = <<>>
    /\ signal_events = {}
    /\ daily_metrics = {}
    /\ dbCall = NoCall
    /\ lastSaved = NoSaved
    /\ calls = <<>>
    /\ escaped = FALSE
    /\ summary = NoSummary

SpecMerge == InitMerge /\ [][ProcessCall]_vars

\* the price and indicator columns
UnjoinedColumns ==
    {"open", "high", "low", "close", "volume", "SMA50", "SMA200", "52w_high",
     "pct_from_52w_high"}

\* C14: the fundamentals merge changes only the joined report fields: the
\* open/high/low/close/volume and SMA50, SMA200, 52w_high, pct_from_52w_high
\* columns of the output are, row by row, those returned for the same prices
\* with no fundamentals
C14_MergeLeavesPricesAndIndicators ==
    pc = "processed" =>
        LET plain == process_data(Raw(raw.prices, NoFundamentals, raw.info))
        IN  /\ Len(df.rows) = Len(plain.rows)
            /\ \A i \in 1..Len(df.rows), c \in UnjoinedColumns :
                SameCell(df.rows[i][c], plain.rows[i][c])

====
